---- MODULE Spec2Model ----
(***************************************************************************)
(* Model of brasstower's ParticleSolver (src/brasstower/particlesolver.cuh) *)
(* and of the kernels it launches.                                          *)
(*                                                                          *)
(* Numbers.  The solver works on float3 values; the model keeps the        *)
(* vertical (y) component, along which gravity and the planes of the model  *)
(* act, as an integer.  Lengths are in units of radius/10.  Velocities are  *)
(* fixed point: VelScale velocity units are one length unit per time unit,  *)
(* so that 1.0f/subDeltaTime is representable.  Where a float operation     *)
(* rounds, the model rounds with \div.                                      *)
(*                                                                          *)
(* Kernels of solverkernel/*.cuh are not part of the sources at hand; they  *)
(* are modelled after the design document and marked so in the map.         *)
(***************************************************************************)
EXTENDS Integers, Sequences, FiniteSets, TLC

(* ------------------------------ bounds --------------------------------- *)
\* scene->numMaxParticles (C) and scene->numMaxRigidBodies (R_max)
numMaxParticles == 4
numMaxRigidBodies == 3
\* number of update calls explored in one run
MaxUpdates == 1
\* gridSize.x*gridSize.y*gridSize.z, scaled down; larger than numMaxParticles
\* as 512^3 is larger than any scene capacity
numCells == 5

(* ---------------------------- constants -------------------------------- *)
\* scene->radius, in length units
Radius == 10
\* cellSize = radius * 2.3f, fluidKernelRadius = 2.3f * radius
cellSize == (Radius * 23) \div 10
fluidKernelRadius == (23 * Radius) \div 10
\* cellOrigin.y; as in the source a cell boundary lies at radius/2
cellOrigin == -18
\* make_float3(0.0f, -9.8f, 0.0f), in velocity units per time unit
Gravity == -8
\* velocity units per length unit and time unit
VelScale == 2
\* 1e-5f of addRigidBody, in reference-shape units
CentroidEps == 1
\* PARTICLE_SLEEPING_EPSILON, in length units
PARTICLE_SLEEPING_EPSILON == 5
\* cudaMemset(devSolidPhaseCounter, 1, sizeof(int)) sets every byte to 1
SolidPhaseCounterInit == 16843009
\* content of device memory that no kernel has written and none reads
Uninit == -9999
\* scene->fluidRestDensity
fluidRestDensity == 2
\* 1/C of XSPH (eq. 17), and the tension strength
XsphInvC == 4
TensionStrength == 1

Idx == 0 .. (numMaxParticles - 1)
RIdx == 0 .. (numMaxRigidBodies - 1)
Cells == 0 .. (numCells - 1)

\* the four float3 device buffers the solver's pointers refer to
Buffers == {"bufA", "bufB", "bufC", "bufD"}

\* every cudaMalloc of the constructor
CtorAllocations ==
  {"devPositions", "devNewPositions", "devTempFloat3", "devVelocities",
   "devMasses", "devInvMasses", "devInvScaledMasses", "devPhases", "devOmegas",
   "devRigidBodyParticleIdRange", "devRigidBodyCMs",
   "devRigidBodyInitialPositions", "devRigidBodyRotations",
   "devSolidPhaseCounter",
   "devCellId", "devParticleId", "devSortedCellId", "devSortedParticleId",
   "devCellStart",
   "devFluidLambdas", "devFluidDensities", "devFluidNormals"}

(* ------------------------------ inputs --------------------------------- *)
\* a plane is (origin.y, normal.y)
GroundPlane == [origin |-> 0, normal |-> 1]
CeilingPlane == [origin |-> 100, normal |-> -1]
PlaneLists == {<<GroundPlane, CeilingPlane>>}

\* (number of particles, height of the first) of the groups appended: one
\* particle dropped from above, a box of two on the ground
Groups == {<<1, 76>>, <<2, 0>>}
Masses == {2}
\* positions of a group, as CreateBoxParticles lays them out (step 2*radius)
BoxPositions(k, start) == [i \in 0 .. (k - 1) |-> start + 2 * Radius * i]
\* reference shapes (positions_CM_Origin) of k particles
RefShapes(k) ==
  IF k = 1 THEN {[i \in {0} |-> 0], [i \in {0} |-> 1]}
  ELSE {[i \in 0 .. 1 |-> IF i = 0 THEN -10 ELSE 11],
        [i \in 0 .. 1 |-> IF i = 0 THEN -9 ELSE 11]}
\* (numSubTimeStep, deltaTime) of an update call
TimeSteps == {<<1, 2>>, <<2, 2>>}
\* (pickedParticleId, pickedParticlePosition, pickedParticleVelocity)
Picks == {<<-1, 0, 0>>, <<1, 40, 6>>}

(* ------------------------------ helpers -------------------------------- *)
Abs(x) == IF x < 0 THEN -x ELSE x
Sign(x) == IF x < 0 THEN -1 ELSE IF x > 0 THEN 1 ELSE 0
Min(a, b) == IF a < b THEN a ELSE b
Max(a, b) == IF a > b THEN a ELSE b

RECURSIVE SumOver(_, _)
SumOver(S, f) ==
  IF S = {} THEN 0
  ELSE LET x == CHOOSE y \in S : TRUE IN f[x] + SumOver(S \ {x}, f)

\* the bijections of 0..k-1: orders in which k threads take the counter
Perms(k) ==
  {p \in [0 .. (k - 1) -> 0 .. (k - 1)] :
     \A a, b \in 0 .. (k - 1) : a # b => p[a] # p[b]}

\* cudaMemcpy / setDevArr_* of n elements at arr + lo
SetRange(arr, lo, n, F(_)) ==
  [i \in DOMAIN arr |-> IF i >= lo /\ i < lo + n THEN F(i - lo) ELSE arr[i]]

(* ------------------------------- state --------------------------------- *)
VARIABLES
  alive,                 \* the solver object exists
  allocated,             \* device allocations not yet freed
  planes,                \* scene->planes
  numParticles,          \* scene->numParticles (N)
  numRigidBodies,        \* scene->numRigidBodies (R)
  mem,                   \* content of the four float3 buffers
  devPositions, devNewPositions, devTempFloat3, devVelocities, \* pointers
  devMasses, devInvMasses, devInvScaledMasses, devPhases,
  devSolidPhaseCounter,
  devFluidLambdas, devFluidDensities, devFluidNormals, devOmegas,
  devRigidBodyParticleIdRange, devRigidBodyInitialPositions, devRigidBodyCMs,
  devCellId, devParticleId, devSortedCellId, devSortedParticleId,
  devCellStart,
  devTempStorage, devTempStorageSize,
  pc,                    \* "idle", the kernel update launches next, "destroyed"
  numSubTimeStep, deltaTime,
  pickedParticleId, pickedParticlePosition, pickedParticleVelocity,
  sub, it, pl,           \* loop indices: substep, iteration, plane
  numUpdates,            \* update calls so far
  lastOp,                \* history: the last call and how it ended
  particleKind,          \* history: the append that created each particle
  passes,                \* history: kernels of the current substep, in order
  posPrev,               \* history: positions read by updateVelocity
  gridSource             \* history: positions the grid was last built from

bufVars == <<mem, devPositions, devNewPositions, devTempFloat3, devVelocities>>
particleVars == <<devMasses, devInvMasses, devInvScaledMasses, devPhases,
                  devSolidPhaseCounter>>
fluidVars == <<devFluidLambdas, devFluidDensities, devFluidNormals, devOmegas>>
rigidVars == <<devRigidBodyParticleIdRange, devRigidBodyInitialPositions,
               devRigidBodyCMs>>
gridVars == <<devCellId, devParticleId, devSortedCellId, devSortedParticleId,
              devCellStart>>
tempVars == <<devTempStorage, devTempStorageSize>>
argVars == <<numSubTimeStep, deltaTime, pickedParticleId,
             pickedParticlePosition, pickedParticleVelocity>>
loopVars == <<sub, it, pl>>
sceneVars == <<planes, numParticles, numRigidBodies>>
histVars == <<passes, posPrev, gridSource, particleKind>>

vars == <<alive, allocated, sceneVars, bufVars, particleVars, fluidVars,
          rigidVars, gridVars, tempVars, pc, argVars, loopVars, numUpdates,
          lastOp, histVars>>

UninitArray == [i \in Idx |-> Uninit]
NoOp == [op |-> "none", k |-> 0, n |-> 0, r |-> 0, refs |-> <<>>,
         result |-> "ok"]

\* values cudaMalloc'ed memory may hold before its first write
UninitInts == {-1, 0}

\* the state the constructor leaves for a scene without bodies
Init ==
  /\ alive = TRUE
  /\ allocated = CtorAllocations
  /\ planes \in PlaneLists
  /\ numParticles = 0
  /\ numRigidBodies = 0
  /\ devPositions = "bufA"
  /\ devNewPositions = "bufB"
  /\ devTempFloat3 = "bufC"
  /\ devVelocities = "bufD"
  /\ mem = [b \in Buffers |->
              IF b = "bufD" THEN [i \in Idx |-> 0] ELSE UninitArray]
  /\ devMasses = UninitArray
  /\ devInvMasses = UninitArray
  /\ devInvScaledMasses = UninitArray
  /\ devPhases = UninitArray
  /\ devSolidPhaseCounter = SolidPhaseCounterInit
  /\ devFluidLambdas = UninitArray
  /\ devFluidDensities = UninitArray
  /\ devFluidNormals = UninitArray
  /\ devOmegas = UninitArray
  /\ devRigidBodyParticleIdRange = [b \in RIdx |-> <<Uninit, Uninit>>]
  /\ devRigidBodyInitialPositions = UninitArray
  /\ devRigidBodyCMs = [b \in RIdx |-> Uninit]
  /\ devCellId = UninitArray
  /\ devParticleId = UninitArray
  /\ devSortedCellId = UninitArray
  /\ devSortedParticleId = UninitArray
  /\ \E g \in UninitInts : devCellStart = [c \in Cells |-> g]
  /\ devTempStorage = "nullptr"
  /\ devTempStorageSize = 0
  /\ pc = "idle"
  /\ numSubTimeStep = 1
  /\ deltaTime = 1
  /\ pickedParticleId = -1
  /\ pickedParticlePosition = 0
  /\ pickedParticleVelocity = 0
  /\ sub = 0
  /\ it = 0
  /\ pl = 1
  /\ numUpdates = 0
  /\ lastOp = NoOp
  /\ passes = <<>>
  /\ posPrev = UninitArray
  /\ gridSource = UninitArray
  /\ particleKind = [i \in Idx |-> "none"]

(* ------------------------------ appends -------------------------------- *)
ParticlesExceedLate(k) == numParticles + k > numMaxParticles + 1
\* scene->numParticles + numParticles >= scene->numMaxParticles
ParticlesExceed(k) == numParticles + k >= numMaxParticles
\* scene->numRigidBodies + 1 >= scene->numMaxRigidBodies
RigidBodiesExceed == numRigidBodies + 1 >= numMaxRigidBodies
OffCenterStrict(refs, k) ==
  Abs(SumOver(0 .. (k - 1), refs)) > CentroidEps * k
\* glm::length(cm) >= 1e-5f with cm the mean of the reference positions;
\* |sum / k| >= eps is compared as |sum| >= eps * k
OffCenter(refs, k) ==
  Abs(SumOver(0 .. (k - 1), refs)) >= CentroidEps * k

\* 1.0f / massPerParticle, in halves
InvMass(m) == 2 \div m

Called(op, k, refs, result) ==
  lastOp' = [op |-> op, k |-> k, n |-> numParticles, r |-> numRigidBodies,
             refs |-> refs, result |-> result]
Created(kind, k) ==
  particleKind' = SetRange(particleKind, numParticles, k, LAMBDA j : kind)

\* the part of an append common to the three kinds: positions, masses, count
AppendCommon(k, start, m) ==
  /\ mem' = [mem EXCEPT ![devPositions] =
               SetRange(@, numParticles, k,
                        LAMBDA j : BoxPositions(k, start)[j])]
  /\ devMasses' = SetRange(devMasses, numParticles, k, LAMBDA j : m)
  /\ devInvMasses' = SetRange(devInvMasses, numParticles, k,
                              LAMBDA j : InvMass(m))
  /\ numParticles' = numParticles + k

Throw ==
  UNCHANGED <<alive, allocated, sceneVars, bufVars, particleVars, fluidVars,
              rigidVars, gridVars, tempVars, pc, argVars, loopVars,
              numUpdates, histVars>>

\* setDevArr_counterIncrement: thread j takes the counter with p[j] threads
\* before it
setDevArr_counterIncrement(counter, incrementValue, p, j) ==
  counter + incrementValue * p[j]

addGranulars(k, start, m) ==
  /\ pc = "idle"
  /\ IF ParticlesExceed(k)
     THEN /\ Called("addGranulars", k, <<>>, "CapacityExceeded")
          /\ Throw
     ELSE /\ AppendCommon(k, start, m)
          /\ \E p \in Perms(k) :
               devPhases' = SetRange(devPhases, numParticles, k,
                                     LAMBDA j :
                                       setDevArr_counterIncrement(
                                         devSolidPhaseCounter, 1, p, j))
          /\ devSolidPhaseCounter' = devSolidPhaseCounter + k
          /\ Called("addGranulars", k, <<>>, "ok")
          /\ Created("granular", k)
          /\ UNCHANGED <<alive, allocated, planes, numRigidBodies,
                         devPositions, devNewPositions, devTempFloat3,
                         devVelocities, devInvScaledMasses, fluidVars,
                         rigidVars, gridVars, tempVars, pc, argVars, loopVars,
                         numUpdates, passes, posPrev, gridSource>>

addFluids(k, start, m) ==
  /\ pc = "idle"
  /\ IF ParticlesExceed(k)
     THEN /\ Called("addFluids", k, <<>>, "CapacityExceeded")
          /\ Throw
     ELSE /\ AppendCommon(k, start, m)
          /\ devPhases' = SetRange(devPhases, numParticles, k, LAMBDA j : -1)
          /\ Called("addFluids", k, <<>>, "ok")
          /\ Created("fluid", k)
          /\ UNCHANGED <<alive, allocated, planes, numRigidBodies,
                         devPositions, devNewPositions, devTempFloat3,
                         devVelocities, devInvScaledMasses,
                         devSolidPhaseCounter, fluidVars,
                         rigidVars, gridVars, tempVars, pc, argVars, loopVars,
                         numUpdates, passes, posPrev, gridSource>>

\* setDevArr_devIntPtr: every element gets the value the pointer refers to
setDevArr_devIntPtr(counter) == counter
\* increment<<<1, 1>>>(devSolidPhaseCounter)
increment(counter) == counter + 1
RigidBodyRangeFromZero(k) == <<0, numParticles + k>>
\* make_int2(scene->numParticles, scene->numParticles + numParticles)
RigidBodyRange(k) == <<numParticles, numParticles + k>>

addRigidBodyCheckAfterCopy(k, start, refs, m) ==
  /\ pc = "idle"
  /\ IF ParticlesExceed(k) \/ RigidBodiesExceed
     THEN /\ Called("addRigidBody", k, refs, "CapacityExceeded")
          /\ Throw
     ELSE IF OffCenter(refs, k)
     THEN /\ Called("addRigidBody", k, refs, "OffCenterReference")
          /\ mem' = [mem EXCEPT ![devPositions] =
                       SetRange(@, numParticles, k,
                                LAMBDA j : BoxPositions(k, start)[j])]
          /\ UNCHANGED <<alive, allocated, sceneVars, devPositions,
                         devNewPositions, devTempFloat3, devVelocities,
                         particleVars, fluidVars, rigidVars, gridVars,
                         tempVars, pc, argVars, loopVars, numUpdates,
                         histVars>>
     ELSE /\ AppendCommon(k, start, m)
          /\ devRigidBodyInitialPositions' =
               SetRange(devRigidBodyInitialPositions, numParticles, k,
                        LAMBDA j : refs[j])
          /\ devPhases' = SetRange(devPhases, numParticles, k,
                                   LAMBDA j :
                                     setDevArr_devIntPtr(devSolidPhaseCounter))
          /\ devRigidBodyParticleIdRange' =
               [devRigidBodyParticleIdRange EXCEPT ![numRigidBodies] =
                  RigidBodyRange(k)]
          /\ devSolidPhaseCounter' = increment(devSolidPhaseCounter)
          /\ numRigidBodies' = numRigidBodies + 1
          /\ Called("addRigidBody", k, refs, "ok")
          /\ Created("rigid", k)
          /\ UNCHANGED <<alive, allocated, planes,
                         devPositions, devNewPositions, devTempFloat3,
                         devVelocities, devInvScaledMasses, fluidVars,
                         devRigidBodyCMs, gridVars, tempVars, pc, argVars,
                         loopVars, numUpdates, passes, posPrev, gridSource>>

addRigidBody(k, start, refs, m) ==
  /\ pc = "idle"
  /\ IF ParticlesExceed(k) \/ RigidBodiesExceed
     THEN /\ Called("addRigidBody", k, refs, "CapacityExceeded")
          /\ Throw
     ELSE IF OffCenter(refs, k)
     THEN /\ Called("addRigidBody", k, refs, "OffCenterReference")
          /\ Throw
     ELSE /\ AppendCommon(k, start, m)
          /\ devRigidBodyInitialPositions' =
               SetRange(devRigidBodyInitialPositions, numParticles, k,
                        LAMBDA j : refs[j])
          /\ devPhases' = SetRange(devPhases, numParticles, k,
                                   LAMBDA j :
                                     setDevArr_devIntPtr(devSolidPhaseCounter))
          /\ devRigidBodyParticleIdRange' =
               [devRigidBodyParticleIdRange EXCEPT ![numRigidBodies] =
                  RigidBodyRange(k)]
          /\ devSolidPhaseCounter' = increment(devSolidPhaseCounter)
          /\ numRigidBodies' = numRigidBodies + 1
          /\ Called("addRigidBody", k, refs, "ok")
          /\ Created("rigid", k)
          /\ UNCHANGED <<alive, allocated, planes,
                         devPositions, devNewPositions, devTempFloat3,
                         devVelocities, devInvScaledMasses, fluidVars,
                         devRigidBodyCMs, gridVars, tempVars, pc, argVars,
                         loopVars, numUpdates, passes, posPrev, gridSource>>

AddGranulars ==
  \E g \in Groups, m \in Masses : addGranulars(g[1], g[2], m)
AddFluids ==
  \E g \in Groups, m \in Masses : addFluids(g[1], g[2], m)
AddRigidBody ==
  \E g \in Groups, m \in Masses :
    \E refs \in RefShapes(g[1]) : addRigidBody(g[1], g[2], refs, m)

(* ------------------------------ kernels -------------------------------- *)
Live == 0 .. (numParticles - 1)
\* a / b rounded to the nearest integer, for b > 0
RoundDiv(a, b) == (2 * a + b) \div (2 * b)

\* a kernel over the live particles: element i < numParticles becomes F(i)
Kernel(arr, F(_)) ==
  [i \in DOMAIN arr |-> IF i < numParticles THEN F(i) ELSE arr[i]]

\* velocities[i] += make_float3(0.0f, -9.8f, 0.0f) * deltaTime
applyForces(velocity, dt) == velocity + Gravity * dt

\* newPositions[i] = positions[i] + velocities[i] * deltaTime
predictPositions(position, velocity, dt) ==
  position + RoundDiv(velocity * dt, VelScale)

updateVelocityTimesDt(newX, x, invDt) == (newX - x) * (VelScale \div invDt)
\* velocities[i] = (newPositions[i] - positions[i]) * invDeltaTime
updateVelocity(newX, x, invDt) == (newX - x) * invDt

\* MASS_SCALING_CONSTANT, per 100 length units
MASS_SCALING_CONSTANT == 1
\* 1.0f / (pow(e, -k * height) * mass), pow(e, x) to first order, in 1/100
computeInvScaledMasses(mass, height) ==
  (100 + MASS_SCALING_CONSTANT * height) \div mass

updatePositionsNoFluidCase(x, newX, phase, threshold) ==
  IF (newX - x) * (newX - x) >= threshold * threshold THEN newX ELSE x
\* (dist2 >= threshold * threshold || phases[i] < 0) ? newX : x
updatePositions(x, newX, phase, threshold) ==
  IF (newX - x) * (newX - x) >= threshold * threshold \/ phase < 0
  THEN newX ELSE x

\* penetration depth of a sphere at x into a plane
Depth(plane, x) == (plane.origin - x) * plane.normal + Radius

\* planeStabilize: the shift of a particle whose committed position x
\* penetrates the plane; committed and predicted position both take it
planeStabilize(plane, x) ==
  IF Depth(plane, x) > 0 THEN Depth(plane, x) * plane.normal ELSE 0

\* particlePlaneCollisionConstraint: <<predicted, committed>> position after
\* the projection; the predicted position leaves the plane, the committed
\* position is nudged
particlePlaneCollisionConstraint(plane, newX, x) ==
  LET d == Depth(plane, newX)
  IN IF d > 0
     THEN <<newX + d * plane.normal,
            x + RoundDiv((2 * (newX - x) * plane.normal + d) * plane.normal,
                         10)>>
     ELSE <<newX, x>>

\* updateGridId: the cell of a position, coordinates clamped into the grid
updateGridId(x) == Max(0, Min(numCells - 1, (x - cellOrigin) \div cellSize))

\* cub::DeviceRadixSort::SortPairs: position of pair i in the stable order
SortRank(cellId, i) ==
  Cardinality({j \in Live : cellId[j] < cellId[i]
                            \/ (cellId[j] = cellId[i] /\ j < i)})
SortedKeys(cellId, old) ==
  [k \in Idx |-> IF k < numParticles
                 THEN cellId[CHOOSE i \in Live : SortRank(cellId, i) = k]
                 ELSE old[k]]
SortedValues(cellId, particleId, old) ==
  [k \in Idx |-> IF k < numParticles
                 THEN particleId[CHOOSE i \in Live : SortRank(cellId, i) = k]
                 ELSE old[k]]

\* findStartId: the first index of every run of equal cell ids
findStartId(cellStart, sortedCellId) ==
  [c \in Cells |->
     IF \E k \in Live : sortedCellId[k] = c
                        /\ (k = 0 \/ sortedCellId[k - 1] # c)
     THEN CHOOSE k \in Live : sortedCellId[k] = c
                              /\ (k = 0 \/ sortedCellId[k - 1] # c)
     ELSE cellStart[c]]

\* ceil(fluidKernelRadius / cellSize)
fluidGridSearchOffset == (fluidKernelRadius + cellSize - 1) \div cellSize

\* particles the walk of cell c visits: from cellStart[c] while the cell id
\* is c
CellParticles(c) ==
  IF devCellStart[c] < 0 THEN {}
  ELSE {devSortedParticleId[k] :
          k \in {k \in Live : /\ k >= devCellStart[c]
                              /\ \A m \in devCellStart[c] .. k :
                                   devSortedCellId[m] = c}}

\* the neighbours of particle i at positions x: particles of the cells around
\* i's cell that lie within the kernel radius
Neighbours(x, i) ==
  {j \in UNION {CellParticles(c) :
                  c \in {c \in Cells :
                           Abs(c - updateGridId(x[i]))
                             <= fluidGridSearchOffset}} :
     j # i /\ Abs(x[i] - x[j]) < fluidKernelRadius}
FluidNeighbours(x, i) == {j \in Neighbours(x, i) : devPhases[j] < 0}

\* fluidLambda: <<density, lambda>> of fluid particle i; the density sums the
\* masses of the particle and its neighbours, lambda has the sign of
\* rest density - density
fluidLambda(x, i) ==
  LET density == SumOver(Neighbours(x, i) \cup {i}, devMasses)
  IN <<density, fluidRestDensity - density>>

\* fluidPosition: the corrected predicted position of particle i; fluid
\* neighbours push a fluid particle along the gradient, others pass through
fluidPosition(x, i) ==
  IF devPhases[i] < 0
  THEN x[i] + RoundDiv(SumOver(FluidNeighbours(x, i),
                         [j \in Idx |->
                            -(devFluidLambdas[i] + devFluidLambdas[j])
                              * Sign(x[i] - x[j])]),
                       fluidRestDensity)
  ELSE x[i]

\* the particles [lo, hi) of rigid body b
BodyParticles(b) ==
  devRigidBodyParticleIdRange[b][1] .. (devRigidBodyParticleIdRange[b][2] - 1)
\* the rigid body a particle belongs to, -1 if none
BodyOf(i) ==
  IF \E b \in 0 .. (numRigidBodies - 1) : i \in BodyParticles(b)
  THEN CHOOSE b \in 0 .. (numRigidBodies - 1) : i \in BodyParticles(b)
  ELSE -1
\* centroid of the predicted positions x of body b
BodyCM(x, b) ==
  RoundDiv(SumOver(BodyParticles(b), x), Cardinality(BodyParticles(b)))

\* shapeMatchingAlphaOne: a particle of a body snaps to centroid plus
\* reference position (one axis: the rotation is the identity)
shapeMatchingAlphaOne(x, i) ==
  IF BodyOf(i) >= 0
  THEN BodyCM(x, BodyOf(i)) + devRigidBodyInitialPositions[i]
  ELSE x[i]

\* fluidOmega: the curl of the velocity field; along one axis the cross
\* product of two vectors is zero
fluidOmega(x, v, i) == 0

\* fluidVorticity: velocities[i] += epsilon * (eta x omega) * deltaTime
fluidVorticity(v, i, dt) ==
  IF devPhases[i] < 0 THEN v[i] + devOmegas[i] * dt ELSE v[i]

\* fluidNormal: the surface normal points away from the fluid neighbours
fluidNormal(x, i) ==
  SumOver(FluidNeighbours(x, i), [j \in Idx |-> Sign(x[i] - x[j])])

\* fluidAkinciTension: the velocity plus cohesion towards the fluid
\* neighbours, integrated over dt; others pass through
fluidAkinciTension(x, v, i, dt) ==
  IF devPhases[i] < 0
  THEN v[i] + TensionStrength * dt
                * SumOver(FluidNeighbours(x, i),
                          [j \in Idx |-> Sign(x[j] - x[i])])
  ELSE v[i]

\* fluidXSph: the velocity smoothed over the fluid neighbours; others pass
\* through
fluidXSph(x, v, i) ==
  IF devPhases[i] < 0
  THEN v[i] + RoundDiv(SumOver(FluidNeighbours(x, i),
                               [j \in Idx |-> v[j] - v[i]]), XsphInvC)
  ELSE v[i]

(* ------------------------------ update --------------------------------- *)
\* float subDeltaTime = deltaTime / (float)numSubTimeStep
subDeltaTime == deltaTime \div numSubTimeStep
\* 1.0f / subDeltaTime, as passed to updateVelocity
invDeltaTime == VelScale \div subDeltaTime
useAkinciCohesionTension == TRUE

\* pickedParticleId >= 0 && pickedParticleId < scene->numParticles
PickedValid == pickedParticleId >= 0 /\ pickedParticleId < numParticles

setParticleAtZero(m, particleIndex, position, velocity) ==
  IF particleIndex < 0 \/ particleIndex >= numParticles THEN m
  ELSE [m EXCEPT ![devPositions][0] = position,
                 ![devVelocities][0] = velocity]
\* setParticle: position and velocity of one particle, nothing when the
\* index is out of range
setParticle(m, particleIndex, position, velocity) ==
  IF particleIndex < 0 \/ particleIndex >= numParticles THEN m
  ELSE [m EXCEPT ![devPositions][particleIndex] = position,
                 ![devVelocities][particleIndex] = velocity]

\* getParticlePosition
getParticlePosition(particleIndex) ==
  IF particleIndex < 0 \/ particleIndex >= numParticles THEN 0
  ELSE mem[devPositions][particleIndex]

Pass(name) == passes' = Append(passes, name)

update(ts, pick) ==
  /\ pc = "idle"
  /\ numParticles >= 1
  /\ numUpdates < MaxUpdates
  /\ numSubTimeStep' = ts[1]
  /\ deltaTime' = ts[2]
  /\ pickedParticleId' = pick[1]
  /\ pickedParticlePosition' = pick[2]
  /\ pickedParticleVelocity' = pick[3]
  /\ sub' = 0
  /\ it' = 0
  /\ pl' = 1
  /\ pc' = "applyForces"
  /\ lastOp' = [op |-> "update", k |-> 0, n |-> numParticles,
                r |-> numRigidBodies, refs |-> <<>>, result |-> "ok"]
  /\ passes' = <<>>
  /\ UNCHANGED <<alive, allocated, sceneVars, bufVars, particleVars,
                 fluidVars, rigidVars, gridVars, tempVars, numUpdates,
                 posPrev, gridSource, particleKind>>

Update == \E ts \in TimeSteps, pick \in Picks : update(ts, pick)

\* what a kernel launch of update leaves alone besides the arrays it writes
LaunchFrame ==
  UNCHANGED <<alive, allocated, sceneVars, argVars, numUpdates, lastOp,
              devMasses, devInvMasses, devPhases, devSolidPhaseCounter,
              devRigidBodyParticleIdRange, devRigidBodyInitialPositions,
              particleKind>>

applyForcesPass ==
  /\ pc = "applyForces"
  /\ mem' = [mem EXCEPT ![devVelocities] =
               Kernel(@, LAMBDA i : applyForces(@[i], subDeltaTime))]
  /\ passes' = <<"applyForces">>
  /\ pc' = IF PickedValid THEN "setParticle" ELSE "predictPositions"
  /\ LaunchFrame
  /\ UNCHANGED <<devPositions, devNewPositions, devTempFloat3, devVelocities,
                 devInvScaledMasses, fluidVars, devRigidBodyCMs, gridVars,
                 tempVars, loopVars, posPrev, gridSource>>

\* setParticle(pickedParticleId, pickedParticlePosition, glm::vec3(0.0f))
pinPickedParticle ==
  /\ pc = "setParticle"
  /\ mem' = setParticle(mem, pickedParticleId, pickedParticlePosition, 0)
  /\ Pass("setParticle")
  /\ pc' = "predictPositions"
  /\ LaunchFrame
  /\ UNCHANGED <<devPositions, devNewPositions, devTempFloat3, devVelocities,
                 devInvScaledMasses, fluidVars, devRigidBodyCMs, gridVars,
                 tempVars, loopVars, posPrev, gridSource>>

predictPositionsPass ==
  /\ pc = "predictPositions"
  /\ mem' = [mem EXCEPT ![devNewPositions] =
               Kernel(@, LAMBDA i :
                 predictPositions(mem[devPositions][i], mem[devVelocities][i],
                                  subDeltaTime))]
  /\ Pass("predictPositions")
  /\ pc' = "computeInvScaledMasses"
  /\ LaunchFrame
  /\ UNCHANGED <<devPositions, devNewPositions, devTempFloat3, devVelocities,
                 devInvScaledMasses, fluidVars, devRigidBodyCMs, gridVars,
                 tempVars, loopVars, posPrev, gridSource>>

computeInvScaledMassesPass ==
  /\ pc = "computeInvScaledMasses"
  /\ devInvScaledMasses' =
       Kernel(devInvScaledMasses, LAMBDA i :
         computeInvScaledMasses(devMasses[i], mem[devPositions][i]))
  /\ Pass("computeInvScaledMasses")
  /\ pc' = "planeStabilize"
  /\ it' = 0
  /\ pl' = 1
  /\ LaunchFrame
  /\ UNCHANGED <<bufVars, fluidVars, devRigidBodyCMs, gridVars, tempVars,
                 sub, posPrev, gridSource>>

\* one launch of the stabilize loops: 2 iterations over scene->planes
planeStabilizePass ==
  /\ pc = "planeStabilize"
  /\ LET shift(i) == planeStabilize(planes[pl], mem[devPositions][i])
     IN mem' = [mem EXCEPT
                  ![devPositions] = Kernel(@, LAMBDA i : @[i] + shift(i)),
                  ![devNewPositions] = Kernel(@, LAMBDA i : @[i] + shift(i))]
  /\ Pass("planeStabilize")
  /\ IF pl < Len(planes)
     THEN /\ pl' = pl + 1
          /\ UNCHANGED <<pc, it>>
     ELSE IF it < 1
     THEN /\ pl' = 1
          /\ it' = it + 1
          /\ UNCHANGED pc
     ELSE /\ pl' = 1
          /\ it' = 0
          /\ pc' = "updateGrid"
  /\ LaunchFrame
  /\ UNCHANGED <<devPositions, devNewPositions, devTempFloat3, devVelocities,
                 devInvScaledMasses, fluidVars, devRigidBodyCMs, gridVars,
                 tempVars, sub, posPrev, gridSource>>

(* ------------------------------- grid ---------------------------------- *)
\* setDevArr_int(devCellStart, -1, scene->numMaxParticles)
ResetCellStart(cellStart) ==
  [c \in Cells |-> IF c < numMaxParticles THEN -1 ELSE cellStart[c]]

\* bytes of temporary storage cub asks for to sort n pairs
SortTempStorageBytes(n) == n

\* updateTempStorageSize: the scratch buffer grows, the old one is freed
updateTempStorageSize(size) ==
  IF size > devTempStorageSize
  THEN /\ allocated' =
            (IF devTempStorage # "nullptr"
             THEN allocated \ {"devTempStorage"} ELSE allocated)
              \cup {"devTempStorage"}
       /\ devTempStorage' = "allocated"
       /\ devTempStorageSize' = size
  ELSE UNCHANGED <<allocated, devTempStorage, devTempStorageSize>>

GridInputCommitted == mem[devPositions]
\* the positions updateGridId is launched on
GridInput == mem[devNewPositions]

updateGrid ==
  /\ pc = "updateGrid"
  /\ LET cellId == Kernel(devCellId, LAMBDA i : updateGridId(GridInput[i]))
         particleId == Kernel(devParticleId, LAMBDA i : i)
         sortedCellId == SortedKeys(cellId, devSortedCellId)
     IN /\ devCellId' = cellId
        /\ devParticleId' = particleId
        /\ devSortedCellId' = sortedCellId
        /\ devSortedParticleId' =
             SortedValues(cellId, particleId, devSortedParticleId)
        /\ devCellStart' =
             findStartId(ResetCellStart(devCellStart), sortedCellId)
  /\ updateTempStorageSize(SortTempStorageBytes(numParticles))
  /\ gridSource' = Kernel(gridSource, LAMBDA i : GridInput[i])
  /\ Pass("updateGrid")
  /\ pc' = "particlePlaneCollisionConstraint"
  /\ it' = 0
  /\ pl' = 1
  /\ UNCHANGED <<alive, sceneVars, argVars, numUpdates, lastOp,
                 devMasses, devInvMasses, devPhases, devSolidPhaseCounter,
                 devRigidBodyParticleIdRange, devRigidBodyInitialPositions,
                 bufVars, devInvScaledMasses, fluidVars, devRigidBodyCMs,
                 sub, posPrev, particleKind>>

(* -------------------------- constraint passes -------------------------- *)
AfterInnerOnce ==
  /\ it' = 0
  /\ pl' = 1
  /\ pc' = "updateVelocity"
\* the end of inner iteration j of `for (int j = 0; j < 2; j++)`
AfterInner ==
  IF it < 1
  THEN /\ it' = it + 1
       /\ pl' = 1
       /\ pc' = "particlePlaneCollisionConstraint"
  ELSE /\ it' = 0
       /\ pl' = 1
       /\ pc' = "updateVelocity"

\* one launch of the loop over scene->planes
particlePlaneCollisionConstraintPass ==
  /\ pc = "particlePlaneCollisionConstraint"
  /\ LET out(i) == particlePlaneCollisionConstraint(
                     planes[pl], mem[devNewPositions][i], mem[devPositions][i])
     IN mem' = [mem EXCEPT
                  ![devNewPositions] = Kernel(@, LAMBDA i : out(i)[1]),
                  ![devPositions] = Kernel(@, LAMBDA i : out(i)[2])]
  /\ Pass("particlePlaneCollisionConstraint")
  /\ IF pl < Len(planes)
     THEN /\ pl' = pl + 1
          /\ UNCHANGED <<pc, it>>
     ELSE /\ pl' = 1
          /\ pc' = "fluidLambda"
          /\ UNCHANGED it
  /\ LaunchFrame
  /\ UNCHANGED <<devPositions, devNewPositions, devTempFloat3, devVelocities,
                 devInvScaledMasses, fluidVars, devRigidBodyCMs, gridVars,
                 tempVars, sub, posPrev, gridSource>>

fluidLambdaPass ==
  /\ pc = "fluidLambda"
  /\ LET x == mem[devNewPositions]
     IN /\ devFluidDensities' = Kernel(devFluidDensities, LAMBDA i :
             IF devPhases[i] < 0 THEN fluidLambda(x, i)[1]
             ELSE devFluidDensities[i])
        /\ devFluidLambdas' = Kernel(devFluidLambdas, LAMBDA i :
             IF devPhases[i] < 0 THEN fluidLambda(x, i)[2]
             ELSE devFluidLambdas[i])
  /\ Pass("fluidLambda")
  /\ pc' = "fluidPosition"
  /\ LaunchFrame
  /\ UNCHANGED <<bufVars, devInvScaledMasses, devFluidNormals, devOmegas,
                 devRigidBodyCMs, gridVars, tempVars, loopVars, posPrev,
                 gridSource>>

\* fluidPosition writes devTempFloat3 from devNewPositions;
\* std::swap(devTempFloat3, devNewPositions)
fluidPositionPass ==
  /\ pc = "fluidPosition"
  /\ mem' = [mem EXCEPT ![devTempFloat3] = Kernel(@, LAMBDA i :
               fluidPosition(mem[devNewPositions], i))]
  /\ devTempFloat3' = devNewPositions
  /\ devNewPositions' = devTempFloat3
  /\ Pass("fluidPosition")
  /\ IF numRigidBodies > 0
     THEN /\ pc' = "shapeMatchingAlphaOne"
          /\ UNCHANGED <<it, pl>>
     ELSE AfterInner
  /\ LaunchFrame
  /\ UNCHANGED <<devPositions, devVelocities, devInvScaledMasses, fluidVars,
                 devRigidBodyCMs, gridVars, tempVars, sub, posPrev,
                 gridSource>>

shapeMatchingAlphaOnePass ==
  /\ pc = "shapeMatchingAlphaOne"
  /\ mem' = [mem EXCEPT ![devNewPositions] = Kernel(@, LAMBDA i :
               shapeMatchingAlphaOne(mem[devNewPositions], i))]
  /\ devRigidBodyCMs' =
       [b \in RIdx |-> IF b < numRigidBodies
                       THEN BodyCM(mem[devNewPositions], b)
                       ELSE devRigidBodyCMs[b]]
  /\ Pass("shapeMatchingAlphaOne")
  /\ AfterInner
  /\ LaunchFrame
  /\ UNCHANGED <<devPositions, devNewPositions, devTempFloat3, devVelocities,
                 devInvScaledMasses, fluidVars, gridVars, tempVars, sub,
                 posPrev, gridSource>>

(* ---------------------- velocity update and commit --------------------- *)
updateVelocityPass ==
  /\ pc = "updateVelocity"
  /\ mem' = [mem EXCEPT ![devVelocities] = Kernel(@, LAMBDA i :
               updateVelocity(mem[devNewPositions][i], mem[devPositions][i],
                              invDeltaTime))]
  /\ posPrev' = Kernel(posPrev, LAMBDA i : mem[devPositions][i])
  /\ Pass("updateVelocity")
  /\ pc' = "updatePositions"
  /\ LaunchFrame
  /\ UNCHANGED <<devPositions, devNewPositions, devTempFloat3, devVelocities,
                 devInvScaledMasses, fluidVars, devRigidBodyCMs, gridVars,
                 tempVars, loopVars, gridSource>>

updatePositionsPass ==
  /\ pc = "updatePositions"
  /\ mem' = [mem EXCEPT ![devPositions] = Kernel(@, LAMBDA i :
               updatePositions(@[i], mem[devNewPositions][i], devPhases[i],
                               PARTICLE_SLEEPING_EPSILON))]
  /\ Pass("updatePositions")
  /\ pc' = "fluidOmega"
  /\ LaunchFrame
  /\ UNCHANGED <<devPositions, devNewPositions, devTempFloat3, devVelocities,
                 devInvScaledMasses, fluidVars, devRigidBodyCMs, gridVars,
                 tempVars, loopVars, posPrev, gridSource>>

(* ------------------------ fluid post-processing ------------------------ *)
fluidOmegaPass ==
  /\ pc = "fluidOmega"
  /\ devOmegas' = Kernel(devOmegas, LAMBDA i :
       IF devPhases[i] < 0
       THEN fluidOmega(mem[devNewPositions], mem[devVelocities], i)
       ELSE devOmegas[i])
  /\ Pass("fluidOmega")
  /\ pc' = "fluidVorticity"
  /\ LaunchFrame
  /\ UNCHANGED <<bufVars, devInvScaledMasses, devFluidLambdas,
                 devFluidDensities, devFluidNormals, devRigidBodyCMs,
                 gridVars, tempVars, loopVars, posPrev, gridSource>>

\* fluidVorticity writes devVelocities in place
fluidVorticityPass ==
  /\ pc = "fluidVorticity"
  /\ mem' = [mem EXCEPT ![devVelocities] = Kernel(@, LAMBDA i :
               fluidVorticity(mem[devVelocities], i, subDeltaTime))]
  /\ Pass("fluidVorticity")
  /\ pc' = IF useAkinciCohesionTension THEN "fluidNormal" ELSE "fluidXSph"
  /\ LaunchFrame
  /\ UNCHANGED <<devPositions, devNewPositions, devTempFloat3, devVelocities,
                 devInvScaledMasses, fluidVars, devRigidBodyCMs, gridVars,
                 tempVars, loopVars, posPrev, gridSource>>

fluidNormalPass ==
  /\ pc = "fluidNormal"
  /\ devFluidNormals' = Kernel(devFluidNormals, LAMBDA i :
       IF devPhases[i] < 0 THEN fluidNormal(mem[devNewPositions], i)
       ELSE devFluidNormals[i])
  /\ Pass("fluidNormal")
  /\ pc' = "fluidAkinciTension"
  /\ LaunchFrame
  /\ UNCHANGED <<bufVars, devInvScaledMasses, devFluidLambdas,
                 devFluidDensities, devOmegas, devRigidBodyCMs, gridVars,
                 tempVars, loopVars, posPrev, gridSource>>

\* fluidAkinciTension writes devTempFloat3 from devVelocities, over the
\* frame's deltaTime; std::swap(devVelocities, devTempFloat3)
fluidAkinciTensionPass ==
  /\ pc = "fluidAkinciTension"
  /\ mem' = [mem EXCEPT ![devTempFloat3] = Kernel(@, LAMBDA i :
               fluidAkinciTension(mem[devNewPositions], mem[devVelocities], i,
                                  deltaTime))]
  /\ devVelocities' = devTempFloat3
  /\ devTempFloat3' = devVelocities
  /\ Pass("fluidAkinciTension")
  /\ pc' = "fluidXSph"
  /\ LaunchFrame
  /\ UNCHANGED <<devPositions, devNewPositions, devInvScaledMasses, fluidVars,
                 devRigidBodyCMs, gridVars, tempVars, loopVars, posPrev,
                 gridSource>>

fluidXSphPassInPlace ==
  /\ pc = "fluidXSph"
  /\ mem' = [mem EXCEPT ![devVelocities] = Kernel(@, LAMBDA i :
               fluidXSph(mem[devNewPositions], mem[devVelocities], i))]
  /\ Pass("fluidXSph")
  /\ sub' = sub + 1
  /\ pc' = IF sub + 1 < numSubTimeStep THEN "applyForces" ELSE "finish"
  /\ LaunchFrame
  /\ UNCHANGED <<devPositions, devNewPositions, devTempFloat3, devVelocities,
                 devInvScaledMasses, fluidVars, devRigidBodyCMs, gridVars,
                 tempVars, it, pl, posPrev, gridSource>>
\* fluidXSph writes devTempFloat3 from devVelocities;
\* std::swap(devVelocities, devTempFloat3); the substep ends
fluidXSphPass ==
  /\ pc = "fluidXSph"
  /\ mem' = [mem EXCEPT ![devTempFloat3] = Kernel(@, LAMBDA i :
               fluidXSph(mem[devNewPositions], mem[devVelocities], i))]
  /\ devVelocities' = devTempFloat3
  /\ devTempFloat3' = devVelocities
  /\ Pass("fluidXSph")
  /\ sub' = sub + 1
  /\ pc' = IF sub + 1 < numSubTimeStep THEN "applyForces" ELSE "finish"
  /\ LaunchFrame
  /\ UNCHANGED <<devPositions, devNewPositions, devInvScaledMasses, fluidVars,
                 devRigidBodyCMs, gridVars, tempVars, it, pl, posPrev,
                 gridSource>>

\* the end of update: the picked particle keeps its solved position and gets
\* pickedParticleVelocity
finishUpdate ==
  /\ pc = "finish"
  /\ mem' = IF PickedValid
            THEN setParticle(mem, pickedParticleId,
                             getParticlePosition(pickedParticleId),
                             pickedParticleVelocity)
            ELSE mem
  /\ pc' = "idle"
  /\ numUpdates' = numUpdates + 1
  /\ UNCHANGED <<alive, allocated, sceneVars, argVars, lastOp,
                 devPositions, devNewPositions, devTempFloat3, devVelocities,
                 particleVars, fluidVars, rigidVars, gridVars, tempVars,
                 loopVars, histVars>>

(* ----------------------------- destruction ----------------------------- *)
\* what the destructor frees: the struct declares none ("TODO:: implement
\* object's destroyer"), the implicit one frees no device memory
DestructorFrees == {}

\* delete solver
Destroy ==
  /\ pc = "idle"
  /\ alive
  /\ alive' = FALSE
  /\ allocated' = allocated \ DestructorFrees
  /\ pc' = "destroyed"
  /\ UNCHANGED <<sceneVars, bufVars, particleVars, fluidVars, rigidVars,
                 gridVars, tempVars, argVars, loopVars, numUpdates, lastOp,
                 histVars>>

Next ==
  \/ AddRigidBody
  \/ AddGranulars
  \/ AddFluids
  \/ Update
  \/ applyForcesPass
  \/ pinPickedParticle
  \/ predictPositionsPass
  \/ computeInvScaledMassesPass
  \/ planeStabilizePass
  \/ updateGrid
  \/ particlePlaneCollisionConstraintPass
  \/ fluidLambdaPass
  \/ fluidPositionPass
  \/ shapeMatchingAlphaOnePass
  \/ updateVelocityPass
  \/ updatePositionsPass
  \/ fluidOmegaPass
  \/ fluidVorticityPass
  \/ fluidNormalPass
  \/ fluidAkinciTensionPass
  \/ fluidXSphPass
  \/ finishUpdate
  \/ Destroy

Spec == Init /\ [][Next]_vars

(* ------------------------------ properties ----------------------------- *)
Appends == {"addRigidBody", "addGranulars", "addFluids"}
Pos(i) == mem[devPositions][i]
NewPos(i) == mem[devNewPositions][i]
Vel(i) == mem[devVelocities][i]

\* C1: an append of k particles fails with CapacityExceeded if and only if
\* N + k > C or, for a rigid body, R + 1 > R_max; an append that brings N to
\* exactly C, or R to exactly R_max, succeeds.
C1_CapacityExceededIff ==
  lastOp.op \in Appends =>
    ((lastOp.result = "CapacityExceeded")
       <=> \/ lastOp.n + lastOp.k > numMaxParticles
           \/ (lastOp.op = "addRigidBody"
                 /\ lastOp.r + 1 > numMaxRigidBodies))

\* C2: N <= C and R <= R_max always; N and R never decrease and change only
\* in a step that is a successful append (no launch of update changes them).
C2_CountsBoundedAndGrowOnlyByAppend ==
  /\ [](numParticles <= numMaxParticles
         /\ numRigidBodies <= numMaxRigidBodies)
  /\ [][/\ numParticles' >= numParticles
         /\ numRigidBodies' >= numRigidBodies
         /\ (numParticles' # numParticles \/ numRigidBodies' # numRigidBodies)
              => /\ pc = "idle"
                 /\ pc' = "idle"
                 /\ lastOp'.op \in Appends
                 /\ lastOp'.result = "ok"
                 /\ numParticles' = numParticles + lastOp'.k]_vars
\* an update has run, particles and a rigid body are present, and the last
\* append was refused
C2_Witness ==
  /\ numUpdates >= 1
  /\ numParticles >= 2
  /\ numRigidBodies >= 1
  /\ lastOp.op \in Appends
  /\ lastOp.result = "CapacityExceeded"

\* magnitude of the centroid of f over S is at least 1e-5
CentroidOff(f, S) == Abs(SumOver(S, f)) >= CentroidEps * Cardinality(S)

\* C3: addRigidBody never succeeds with a reference shape whose centroid has
\* magnitude >= 1e-5, it fails with OffCenterReference when the capacity
\* checks pass, and every rigid body of the table has a reference shape with
\* centroid magnitude < 1e-5.
C3_OffCenterRefused ==
  /\ (lastOp.op = "addRigidBody" /\ CentroidOff(lastOp.refs, DOMAIN lastOp.refs))
       => /\ lastOp.result # "ok"
          /\ (lastOp.n + lastOp.k < numMaxParticles
                /\ lastOp.r + 1 < numMaxRigidBodies)
               => lastOp.result = "OffCenterReference"
  /\ \A b \in 0 .. (numRigidBodies - 1) :
       ~CentroidOff(devRigidBodyInitialPositions, BodyParticles(b))
\* a body is in the table and an off-centre shape has just been refused
C3_Witness ==
  /\ numRigidBodies >= 1
  /\ lastOp.op = "addRigidBody"
  /\ lastOp.result = "OffCenterReference"
  /\ CentroidOff(lastOp.refs, DOMAIN lastOp.refs)

RangeOf(b) == devRigidBodyParticleIdRange[b]
Bodies == 0 .. (numRigidBodies - 1)

\* C4: phases partition the particles: the particles of a rigid body share
\* one positive phase no particle outside the body has, a granular particle
\* has a positive phase no other particle has, a fluid particle has phase -1,
\* and the rigid-body ranges are pairwise disjoint and lie within [0, N).
C4_PhasePartition ==
  /\ \A b \in Bodies :
       /\ 0 <= RangeOf(b)[1]
       /\ RangeOf(b)[1] <= RangeOf(b)[2]
       /\ RangeOf(b)[2] <= numParticles
       /\ \A i \in BodyParticles(b) :
            /\ particleKind[i] = "rigid"
            /\ devPhases[i] > 0
            /\ \A j \in Live :
                 (devPhases[j] = devPhases[i]) <=> (j \in BodyParticles(b))
  /\ \A a, b \in Bodies :
       a # b => BodyParticles(a) \cap BodyParticles(b) = {}
  /\ \A i \in Live :
       /\ particleKind[i] = "rigid" => \E b \in Bodies : i \in BodyParticles(b)
       /\ particleKind[i] = "granular" =>
            /\ devPhases[i] > 0
            /\ \A j \in Live : j # i => devPhases[j] # devPhases[i]
       /\ particleKind[i] = "fluid" => devPhases[i] = -1
\* two rigid bodies and a granular particle, appended in some order
C4_Witness ==
  /\ numRigidBodies = 2
  /\ \E i \in Live : particleKind[i] = "granular"

RECURSIVE Repeat(_, _)
Repeat(n, seq) == IF n = 0 THEN <<>> ELSE seq \o Repeat(n - 1, seq)
\* the passes of one substep in the order of the driver's pipeline
InnerIteration ==
  Repeat(Len(planes), <<"particlePlaneCollisionConstraint">>)
    \o <<"fluidLambda", "fluidPosition">>
    \o (IF numRigidBodies > 0 THEN <<"shapeMatchingAlphaOne">> ELSE <<>>)
PipelineOrder ==
  <<"applyForces", "predictPositions", "computeInvScaledMasses">>
    \o Repeat(2 * Len(planes), <<"planeStabilize">>)
    \o <<"updateGrid">>
    \o Repeat(2, InnerIteration)
    \o <<"updateVelocity", "updatePositions", "fluidOmega", "fluidVorticity",
         "fluidNormal", "fluidAkinciTension", "fluidXSph">>
IsPrefix(a, b) == Len(a) <= Len(b) /\ \A n \in 1 .. Len(a) : a[n] = b[n]
\* a substep has just been completed
AtSubstepEnd == pc = "finish" \/ (pc = "applyForces" /\ sub > 0)

\* C5: without a picked particle update runs exactly numSubTimeStep substeps
\* and every substep launches the passes in the pipeline's order, none
\* missing, repeated or in between.
C5_PassOrder ==
  (pc \notin {"idle", "destroyed"} /\ ~PickedValid) =>
    /\ IsPrefix(passes, PipelineOrder)
    /\ sub <= numSubTimeStep
    /\ AtSubstepEnd => passes = PipelineOrder
    /\ pc = "finish" <=> sub = numSubTimeStep
\* the second substep of an update of a scene with a rigid body is complete
C5_Witness ==
  /\ pc = "finish"
  /\ ~PickedValid
  /\ sub = 2
  /\ numRigidBodies > 0
  /\ passes = PipelineOrder

\* the first index of cell c in the sorted cell ids, -1 if there is none
FirstOfCell(c) ==
  IF \E k \in Live : devSortedCellId[k] = c
  THEN CHOOSE k \in Live :
         /\ devSortedCellId[k] = c
         /\ \A m \in Live : devSortedCellId[m] = c => k <= m
  ELSE -1
\* updateGrid has just run
AfterRebuild ==
  pc = "particlePlaneCollisionConstraint" /\ it = 0 /\ pl = 1

\* C6: after every grid rebuild, cellStart[c] is -1 for every cell without
\* particles and the first sorted index of the cell otherwise, for every cell
\* of the grid.
C6_CellStartAfterRebuild ==
  AfterRebuild => \A c \in Cells : devCellStart[c] = FirstOfCell(c)

\* tolerance of the velocity comparison, in velocity units
VelTol == VelScale \div 2
VelocityFromDelta(i) == (NewPos(i) - posPrev[i]) * (VelScale \div subDeltaTime)

\* C7: at the end of every substep the velocity of every particle is
\* (predicted - position read by the velocity update) / subDeltaTime within
\* tolerance.
C7_VelocityAtSubstepEnd ==
  AtSubstepEnd =>
    \A i \in Live : Abs(Vel(i) - VelocityFromDelta(i)) <= VelTol
\* C7 as amended: the equation holds from the velocity update until the
\* fluid post-processing writes velocities, and at the end of the substep for
\* every particle that is not fluid.
C7_VelocityAfterUpdateVelocity ==
  /\ pc \in {"updatePositions", "fluidOmega", "fluidVorticity"} =>
       \A i \in Live : Vel(i) = VelocityFromDelta(i)
  /\ AtSubstepEnd =>
       \A i \in Live : devPhases[i] >= 0 => Vel(i) = VelocityFromDelta(i)
\* a substep has ended in which a solid particle moved and the velocity of a
\* fluid particle left the equation
C7_Witness ==
  /\ AtSubstepEnd
  /\ \E i \in Live : devPhases[i] >= 0 /\ Vel(i) # 0
  /\ \E i \in Live :
       devPhases[i] < 0 /\ Abs(Vel(i) - VelocityFromDelta(i)) > VelTol

\* C8: once the solver is destroyed none of its device allocations remains.
C8_AllReleasedAtDestruction == ~alive => allocated = {}

SleepCondition(i) ==
  \/ devPhases[i] < 0
  \/ (NewPos(i) - Pos(i)) * (NewPos(i) - Pos(i))
       >= PARTICLE_SLEEPING_EPSILON * PARTICLE_SLEEPING_EPSILON

\* C9: the commit pass sets position[i] to predicted[i] if the particle is
\* fluid or moved by at least the sleep threshold and leaves it unchanged
\* otherwise; predicted positions and phases are as before.
C9_CommitPass ==
  [][pc = "updatePositions" =>
       \A i \in Live :
         /\ mem'[devPositions'][i] =
              (IF SleepCondition(i) THEN NewPos(i) ELSE Pos(i))
         /\ mem'[devNewPositions'][i] = NewPos(i)
         /\ devPhases'[i] = devPhases[i]]_vars
\* after a commit: a solid particle below the threshold kept its position, a
\* fluid particle below the threshold was committed
C9_Witness ==
  /\ pc = "fluidOmega"
  /\ \E i \in Live :
       devPhases[i] >= 0 /\ Pos(i) = posPrev[i] /\ NewPos(i) # Pos(i)
  /\ \E i \in Live :
       /\ devPhases[i] < 0
       /\ Pos(i) = NewPos(i)
       /\ NewPos(i) # posPrev[i]
       /\ Abs(NewPos(i) - posPrev[i]) < PARTICLE_SLEEPING_EPSILON

\* an inner constraint iteration is about to start
AtInnerIterationStart == pc = "particlePlaneCollisionConstraint" /\ pl = 1
GridMatchesPredicted ==
  \A i \in Live : /\ devCellId[i] = updateGridId(NewPos(i))
                   /\ gridSource[i] = NewPos(i)

\* C10: every inner constraint iteration starts with a grid built from the
\* predicted positions as they are at that moment.
C10_GridBuiltEveryIteration == AtInnerIterationStart => GridMatchesPredicted
\* C10 as amended: the grid is built once per substep, from the predicted
\* positions as they are before the first inner iteration; no other pass of
\* the substep writes it.
C10_GridBuiltOncePerSubstep ==
  /\ [](AfterRebuild => GridMatchesPredicted)
  /\ [][gridVars' # gridVars => (pc = "updateGrid" /\ pc' # "updateGrid")]_vars
\* the second inner iteration starts with a particle that has left the cell
\* the grid has it in
C10_Witness ==
  /\ AtInnerIterationStart
  /\ it = 1
  /\ \E i \in Live : devCellId[i] # updateGridId(NewPos(i))

(* ---- C11 ---- *)
SubstepPasses ==
  {"applyForces", "setParticle", "predictPositions", "computeInvScaledMasses",
   "planeStabilize", "updateGrid", "particlePlaneCollisionConstraint",
   "fluidLambda", "fluidPosition", "shapeMatchingAlphaOne", "updateVelocity",
   "updatePositions", "fluidOmega", "fluidVorticity", "fluidNormal",
   "fluidAkinciTension", "fluidXSph"}
PositionKept(i) == mem'[devPositions'][i] = mem[devPositions][i]

\* C11 (as stated): within a substep only the stabilization pass and the
\* commit pass write the committed positions; every other pass of update,
\* the plane collision constraint and the picked-particle handling included,
\* leaves position[0..N) unchanged.
C11_PositionWrittenOnlyByStabilizeAndCommit ==
  [][(pc \in SubstepPasses \ {"planeStabilize", "updatePositions"})
       => \A i \in Live : PositionKept(i)]_vars

\* C11 (amended): within a substep the committed positions are written only
\* by the picked-particle pin (the picked index alone, set to
\* pickedParticlePosition), the stabilization pass, the plane collision
\* constraint and the commit pass; every other pass leaves position[0..N)
\* unchanged.
C11_PositionWriters ==
  [][/\ (pc \in SubstepPasses \ {"setParticle", "planeStabilize",
                                 "particlePlaneCollisionConstraint",
                                 "updatePositions"})
          => \A i \in Live : PositionKept(i)
     /\ pc = "setParticle"
          => /\ \A i \in Live \ {pickedParticleId} : PositionKept(i)
             /\ mem'[devPositions'][pickedParticleId] = pickedParticlePosition
    ]_vars

\* the pin has moved the picked particle and left another particle where it
\* was
C11_Witness ==
  /\ pc = "predictPositions"
  /\ PickedValid
  /\ Pos(pickedParticleId) = pickedParticlePosition
  /\ \E i \in Live \ {pickedParticleId} : Pos(i) # pickedParticlePosition

(* ---- C12 ---- *)
GatherPasses == {"fluidPosition", "fluidAkinciTension", "fluidXSph"}
\* the float3 buffers the gather pass about to run is given as input
GatherReads ==
  IF pc = "fluidPosition" THEN {devNewPositions}
  ELSE {devNewPositions, devVelocities}
\* the role the gather pass about to run produces
GatherRole == IF pc = "fluidPosition" THEN devNewPositions ELSE devVelocities
GatherRoleAfter ==
  IF pc = "fluidPosition" THEN devNewPositions' ELSE devVelocities'
Written == {b \in Buffers : mem'[b] # mem[b]}
RolesDistinct ==
  Cardinality({devPositions, devNewPositions, devTempFloat3,
               devVelocities}) = 4

\* what a step of a gather pass does to the buffers and the roles
GatherStep ==
  pc \in GatherPasses =>
    /\ Written \cap GatherReads = {}
    /\ Written \subseteq {devTempFloat3}
    /\ GatherRoleAfter = devTempFloat3
    /\ devTempFloat3' = GatherRole
    /\ \A i \in Live :
         devPhases[i] >= 0 => mem'[GatherRoleAfter][i] = mem[GatherRole][i]

\* C12: a gather pass (fluid position correction, Akinci tension, XSPH)
\* writes no buffer it reads; the buffers in the roles position, predicted
\* position, scratch and velocity are pairwise distinct at every point; the
\* position role never leaves the buffer it was constructed with, and after
\* a gather pass the role it produces refers to the buffer it wrote, where
\* the particles the pass does not move have the role's value from before.
C12_GatherBuffers ==
  /\ [](RolesDistinct /\ devPositions = "bufA")
  /\ [][GatherStep]_vars

\* an update has run its substeps over fluid and non-fluid particles, and
\* the buffer XSPH read, now in the scratch role, differs from the
\* velocities it wrote
C12_Witness ==
  /\ pc = "finish"
  /\ \E i \in Live : devPhases[i] >= 0 /\ Vel(i) # 0
  /\ \E i \in Live :
       devPhases[i] < 0 /\ mem[devTempFloat3][i] # mem[devVelocities][i]

(* ---- C13 ---- *)
Failures == {"CapacityExceeded", "OffCenterReference"}
\* the step is an append call that failed
FailedAppend ==
  /\ lastOp' # lastOp
  /\ lastOp'.op \in Appends
  /\ lastOp'.result \in Failures

\* C13: an append that fails with CapacityExceeded or OffCenterReference
\* leaves N, R, the phase counter, every particle array and the rigid-body
\* table as they were, and with them everything a later call depends on.
C13_FailedAppendChangesNothing ==
  [][FailedAppend =>
       UNCHANGED <<alive, allocated, sceneVars, bufVars, particleVars,
                   fluidVars, rigidVars, gridVars, tempVars, pc, argVars,
                   loopVars, numUpdates>>]_vars

\* a fluid append has been refused for capacity in a scene that holds a
\* rigid body and has been solved, so that every array has contents to lose
C13_Witness ==
  /\ lastOp.op = "addFluids"
  /\ lastOp.result = "CapacityExceeded"
  /\ numRigidBodies >= 1
  /\ devSolidPhaseCounter > SolidPhaseCounterInit
  /\ numUpdates >= 1

(* ---- C14 ---- *)
\* update has just returned
UpdateReturned == pc = "idle" /\ lastOp.op = "update"

\* C14: when update returns from a call with a valid pickedParticleId, the
\* committed position of the picked particle is pickedParticlePosition and
\* its velocity is pickedParticleVelocity; a call with a pickedParticleId
\* out of range runs no picked-particle step and its last step overrides no
\* particle.
C14_PickedParticleImmovable ==
  /\ [](UpdateReturned /\ PickedValid =>
          /\ Pos(pickedParticleId) = pickedParticlePosition
          /\ Vel(pickedParticleId) = pickedParticleVelocity)
  /\ [](pc # "idle" /\ ~PickedValid => pc # "setParticle")
  /\ [][pc = "finish" /\ ~PickedValid => mem' = mem]_vars

====
